---- MODULE Spec2Model ----
(***************************************************************************)
(* GalvaSim (src/script.js): the potential-calculation engine              *)
(* (EnvironmentSettings.modifyPotential,                                   *)
(* AdvancedElectrochemicalCell.calculateCellPotential), the lookup table   *)
(* STANDARD_REDUCTION_POTENTIALS and the form handlers that drive them.    *)
(*                                                                         *)
(* JavaScript numbers are IEEE-754 binary64 values.  The engine's results  *)
(* are decided by roundings (toFixed(3), toFixed(4)) of sums and products  *)
(* that land on or next to decimal ties, so the arithmetic is modelled     *)
(* bit-exactly: a 53-bit significand held as a natural number in limbs,    *)
(* every operation rounded to nearest, ties to even.                       *)
(***************************************************************************)
EXTENDS Integers, Sequences, FiniteSets, TLC

(***************************************************************************)
(* Natural numbers of any size: little-endian sequences of limbs in base   *)
(* 2^15, without high zero limbs; <<>> is 0.                               *)
(***************************************************************************)
LimbBits == 15

\* const name = value; rest -- the value is computed once, before the
\* statements that follow it, as in the program (definitions are otherwise
\* evaluated on demand, at each use)
Bind(value, Rest(_)) == CHOOSE result \in {Rest(v) : v \in {value}} : TRUE

Min(i, j) == IF i < j THEN i ELSE j

Max(i, j) == IF i > j THEN i ELSE j

Base == 2 ^ LimbBits

RECURSIVE NTrim(_)
NTrim(a) ==
  IF a = <<>> THEN a
  ELSE IF a[Len(a)] = 0 THEN NTrim(SubSeq(a, 1, Len(a) - 1)) ELSE a

NFromInt(i) ==
  IF i = 0 THEN <<>>
  ELSE IF i < Base THEN <<i>>
  ELSE IF i < Base * Base THEN <<i % Base, i \div Base>>
  ELSE <<i % Base, (i \div Base) % Base, i \div (Base * Base)>>

RECURSIVE NToInt(_)
NToInt(a) == IF a = <<>> THEN 0 ELSE Head(a) + Base * NToInt(Tail(a))

RECURSIVE NAddC(_, _, _)
NAddC(a, b, c) ==
  IF a = <<>> /\ b = <<>> THEN (IF c = 0 THEN <<>> ELSE <<c>>)
  ELSE LET x == (IF a = <<>> THEN 0 ELSE Head(a))
                + (IF b = <<>> THEN 0 ELSE Head(b)) + c
       IN <<x % Base>> \o NAddC(IF a = <<>> THEN a ELSE Tail(a),
                                IF b = <<>> THEN b ELSE Tail(b),
                                x \div Base)

NAdd(a, b) == NAddC(a, b, 0)

\* a - b - c for a >= b + c, limb by limb with a borrow
RECURSIVE NSubB(_, _, _)
NSubB(a, b, c) ==
  IF a = <<>> THEN <<>>
  ELSE LET x == Head(a) - (IF b = <<>> THEN 0 ELSE Head(b)) - c
       IN <<IF x < 0 THEN x + Base ELSE x>>
          \o NSubB(Tail(a), IF b = <<>> THEN b ELSE Tail(b),
                   IF x < 0 THEN 1 ELSE 0)

NSub(a, b) == NTrim(NSubB(a, b, 0))

\* -1, 0, 1 as a < b, a = b, a > b
RECURSIVE NCmpFrom(_, _, _)
NCmpFrom(a, b, i) ==
  IF i = 0 THEN 0
  ELSE IF a[i] < b[i] THEN -1
  ELSE IF a[i] > b[i] THEN 1
  ELSE NCmpFrom(a, b, i - 1)

NCmp(a, b) ==
  IF Len(a) < Len(b) THEN -1
  ELSE IF Len(a) > Len(b) THEN 1
  ELSE NCmpFrom(a, b, Len(a))

\* a * k + c for a limb k
RECURSIVE NMulS(_, _, _)
NMulS(a, k, c) ==
  IF a = <<>> THEN (IF c = 0 THEN <<>> ELSE <<c>>)
  ELSE LET x == Head(a) * k + c
       IN <<x % Base>> \o NMulS(Tail(a), k, x \div Base)

RECURSIVE NMul(_, _)
NMul(a, b) ==
  IF a = <<>> \/ b = <<>> THEN <<>>
  ELSE NTrim(NAdd(NMulS(a, Head(b), 0), <<0>> \o NMul(a, Tail(b))))

\* <<quotient, remainder>> of a by a limb k, from the high limb down
RECURSIVE NDivSFrom(_, _, _, _)
NDivSFrom(a, k, i, r) ==
  IF i = 0 THEN <<<<>>, r>>
  ELSE LET x == r * Base + a[i]
           rest == NDivSFrom(a, k, i - 1, x % k)
       IN <<rest[1] \o <<x \div k>>, rest[2]>>

NDivS(a, k) ==
  LET qr == NDivSFrom(a, k, Len(a), 0) IN <<NTrim(qr[1]), qr[2]>>

RECURSIVE Zeros(_)
Zeros(n) == IF n = 0 THEN <<>> ELSE <<0>> \o Zeros(n - 1)

\* a * 2^n
NShl(a, n) ==
  IF a = <<>> THEN a
  ELSE Zeros(n \div LimbBits) \o NMulS(a, 2 ^ (n % LimbBits), 0)

\* floor(a / 2^n)
NShr(a, n) ==
  IF n \div LimbBits >= Len(a) THEN <<>>
  ELSE NDivS(SubSeq(a, n \div LimbBits + 1, Len(a)), 2 ^ (n % LimbBits))[1]

RECURSIVE IntBitLen(_)
IntBitLen(i) == IF i = 0 THEN 0 ELSE 1 + IntBitLen(i \div 2)

NBitLen(a) ==
  IF a = <<>> THEN 0 ELSE LimbBits * (Len(a) - 1) + IntBitLen(a[Len(a)])

NIsOdd(a) == a # <<>> /\ Head(a) % 2 = 1

\* Long division (Knuth's algorithm D) by a divisor b whose top limb is at
\* least Base / 2.  NDivStep: with r < b the remainder of the limbs read so
\* far, the quotient limb and the remainder once limb x is read too: the limb
\* is estimated from the top two limbs of the running dividend and the top
\* limb of b, an estimate at most 2 too large.
NDivStep(r, x, b) ==
  Bind(IF r = <<>> /\ x = 0 THEN <<>> ELSE <<x>> \o r, LAMBDA d :
  Bind(Min(((IF Len(d) > Len(b) THEN d[Len(b) + 1] * Base ELSE 0)
            + (IF Len(d) >= Len(b) THEN d[Len(b)] ELSE 0)) \div b[Len(b)],
           Base - 1), LAMBDA q0 :
  Bind(IF NCmp(NTrim(NMulS(b, q0, 0)), d) <= 0 THEN q0 ELSE q0 - 1, LAMBDA q1 :
  Bind(IF NCmp(NTrim(NMulS(b, q1, 0)), d) <= 0 THEN q1 ELSE q1 - 1, LAMBDA q2 :
  <<q2, NSub(d, NTrim(NMulS(b, q2, 0)))>>))))

\* <<quotient, remainder>> of the limbs i.. of a by b
RECURSIVE NDivModFrom(_, _, _)
NDivModFrom(a, b, i) ==
  IF i > Len(a) THEN <<<<>>, <<>>>>
  ELSE Bind(NDivModFrom(a, b, i + 1), LAMBDA hi :
       Bind(NDivStep(hi[2], a[i], b), LAMBDA st :
       IF hi[1] = <<>> /\ st[1] = 0 THEN <<<<>>, st[2]>>
       ELSE <<<<st[1]>> \o hi[1], st[2]>>))

\* <<quotient, remainder>> of a by b # 0: both are shifted left until the top
\* limb of b is at least Base / 2, which leaves the quotient unchanged
NDivMod(a, b) ==
  Bind(LimbBits - IntBitLen(b[Len(b)]), LAMBDA sh :
  Bind(NDivModFrom(NShl(a, sh), NShl(b, sh), 1), LAMBDA qr :
  <<qr[1], NShr(qr[2], sh)>>))

RECURSIVE NPow10(_)
NPow10(d) == IF d = 0 THEN <<1>> ELSE NMulS(NPow10(d - 1), 10, 0)

(***************************************************************************)
(* Numbers: IEEE-754 binary64.  A finite value is (-1)^s * m * 2^e with    *)
(* m = 0 (<<>>, e = 0) or 2^52 <= m < 2^53; k tells a finite value from    *)
(* NaN and from an infinity.  The values the engine handles lie between    *)
(* 1e-4 and 1e6 in magnitude, far from the subnormal and overflow ranges,  *)
(* which are left out.                                                     *)
(***************************************************************************)
Precision == 53

NaN == [k |-> "nan", s |-> 0, m |-> <<>>, e |-> 0]

Inf(s) == [k |-> "inf", s |-> s, m |-> <<>>, e |-> 0]

Zero(s) == [k |-> "num", s |-> s, m |-> <<>>, e |-> 0]

IsNaN(x) == x.k = "nan"

IsFinite(x) == x.k = "num"

IsZero(x) == x.k = "num" /\ x.m = <<>>

Xor(s, t) == IF s = t THEN 0 ELSE 1

\* The binary64 value nearest to (-1)^s * (N + f) * 2^E, where 0 <= f < 1 and
\* sticky tells whether f > 0: round to nearest, ties to even.
Pack(s, N, E, sticky) ==
  IF N = <<>> THEN Zero(s)
  ELSE Bind(NBitLen(N), LAMBDA bl :
    IF bl <= Precision
    THEN [k |-> "num", s |-> s, m |-> NShl(N, Precision - bl),
          e |-> E - (Precision - bl)]
    ELSE Bind(NShr(N, bl - Precision), LAMBDA q :
         Bind(NCmp(NSub(N, NShl(q, bl - Precision)),
                   NShl(<<1>>, bl - Precision - 1)), LAMBDA c :
         Bind(IF c > 0 \/ (c = 0 /\ (sticky \/ NIsOdd(q)))
              THEN NAdd(q, <<1>>) ELSE q, LAMBDA q2 :
         IF NBitLen(q2) > Precision
         THEN [k |-> "num", s |-> s, m |-> NShr(q2, 1),
               e |-> E + (bl - Precision) + 1]
         ELSE [k |-> "num", s |-> s, m |-> q2, e |-> E + (bl - Precision)]))))

FNeg(x) == IF x.k = "nan" THEN x ELSE [x EXCEPT !.s = 1 - x.s]

\* x + y
FAdd(x, y) ==
  IF x.k = "nan" \/ y.k = "nan" THEN NaN
  ELSE IF x.k = "inf" THEN (IF y.k = "inf" /\ y.s # x.s THEN NaN ELSE x)
  ELSE IF y.k = "inf" THEN y
  ELSE IF x.m = <<>>
       THEN (IF y.m = <<>> THEN Zero(IF x.s = 1 /\ y.s = 1 THEN 1 ELSE 0) ELSE y)
  ELSE IF y.m = <<>> THEN x
  ELSE Bind(Min(x.e, y.e), LAMBDA e :
       Bind(NShl(x.m, x.e - e), LAMBDA a :
       Bind(NShl(y.m, y.e - e), LAMBDA b :
       Bind(NCmp(a, b), LAMBDA c :
       IF x.s = y.s THEN Pack(x.s, NAdd(a, b), e, FALSE)
       ELSE IF c = 0 THEN Zero(0)
       ELSE Pack(IF c > 0 THEN x.s ELSE y.s,
                 IF c > 0 THEN NSub(a, b) ELSE NSub(b, a), e, FALSE)))))

\* x - y
FSub(x, y) == FAdd(x, FNeg(y))

\* x * y
FMul(x, y) ==
  IF x.k = "nan" \/ y.k = "nan" THEN NaN
  ELSE IF x.k = "inf" \/ y.k = "inf"
       THEN (IF IsZero(x) \/ IsZero(y) THEN NaN ELSE Inf(Xor(x.s, y.s)))
  ELSE IF x.m = <<>> \/ y.m = <<>> THEN Zero(Xor(x.s, y.s))
  ELSE Pack(Xor(x.s, y.s), NMul(x.m, y.m), x.e + y.e, FALSE)

\* x / y
FDiv(x, y) ==
  IF x.k = "nan" \/ y.k = "nan" THEN NaN
  ELSE IF x.k = "inf" THEN (IF y.k = "inf" THEN NaN ELSE Inf(Xor(x.s, y.s)))
  ELSE IF y.k = "inf" THEN Zero(Xor(x.s, y.s))
  ELSE IF y.m = <<>> THEN (IF x.m = <<>> THEN NaN ELSE Inf(Xor(x.s, y.s)))
  ELSE IF x.m = <<>> THEN Zero(Xor(x.s, y.s))
  ELSE Bind(NDivMod(NShl(x.m, Precision + 3), y.m), LAMBDA qr :
       Pack(Xor(x.s, y.s), qr[1], x.e - y.e - (Precision + 3), qr[2] # <<>>))

\* x < y (false when either is NaN)
FLess(x, y) ==
  IF x.k = "nan" \/ y.k = "nan" THEN FALSE
  ELSE Bind(FSub(x, y), LAMBDA d : d.k # "nan" /\ d.s = 1 /\ ~IsZero(d))

\* x > y
FGreater(x, y) == FLess(y, x)

\* The value of the decimal numeral (-1)^neg * n / 10^d, correctly rounded
FromDec(neg, n, d) ==
  IF n = <<>> THEN Zero(IF neg THEN 1 ELSE 0)
  ELSE Bind(NPow10(d), LAMBDA p :
       Bind(Max(0, Precision + 3 + NBitLen(p) - NBitLen(n)), LAMBDA sh :
       Bind(NDivMod(NShl(n, sh), p), LAMBDA qr :
       Pack(IF neg THEN 1 ELSE 0, qr[1], -sh, qr[2] # <<>>))))

\* A numeric literal of the source with at most 9 digits: i / 10^d
Lit(i, d) == FromDec(i < 0, NFromInt(IF i < 0 THEN -i ELSE i), d)

\* A numeric literal of the source with more digits: (hi * 10^9 + lo) / 10^d
LitLong(hi, lo, d) ==
  FromDec(FALSE, NAdd(NMul(NFromInt(hi), NPow10(9)), NFromInt(lo)), d)

(***************************************************************************)
(* Strings are sequences of one-character strings, so that formatting      *)
(* (Number.prototype.toFixed) and parsing (parseFloat) are computed, digit *)
(* by digit, and a round trip through text is not the identity.            *)
(***************************************************************************)
DigitChars == <<"0", "1", "2", "3", "4", "5", "6", "7", "8", "9">>

IsDigit(c) == \E i \in 1..10 : DigitChars[i] = c

DigitVal(c) == (CHOOSE i \in 1..10 : DigitChars[i] = c) - 1

RECURSIVE IntDigits(_)
IntDigits(n) ==
  IF n < 10 THEN <<DigitChars[n + 1]>>
  ELSE IntDigits(n \div 10) \o <<DigitChars[(n % 10) + 1]>>

RECURSIVE PadLeft(_, _)
PadLeft(ds, len) == IF Len(ds) >= len THEN ds ELSE PadLeft(<<"0">> \o ds, len)

TextNaN == <<"N", "a", "N">>

TextInfinity == <<"I", "n", "f", "i", "n", "i", "t", "y">>

\* Number.prototype.toFixed(d) for 0 <= d <= 4 and |x| < 1e21: the integer n
\* with n / 10^d nearest to |x| (the larger n at a tie), written with d
\* decimals, after "-" when x < 0 (so -0 gives "0.000" and -0.0001 "-0.000")
ToFixed(x, d) ==
  IF x.k = "nan" THEN TextNaN
  ELSE IF x.k = "inf" THEN (IF x.s = 1 THEN <<"-">> ELSE <<>>) \o TextInfinity
  ELSE Bind(NMul(x.m, NPow10(d)), LAMBDA N :
       Bind(NShr(N, -x.e), LAMBDA q :
       Bind(IF x.e >= 0 THEN NShl(N, x.e)
            ELSE IF NCmp(NSub(N, NShl(q, -x.e)), NShl(<<1>>, -x.e - 1)) >= 0
            THEN NAdd(q, <<1>>)
            ELSE q, LAMBDA n :
       Bind(PadLeft(IntDigits(NToInt(n)), d + 1), LAMBDA ds :
       (IF x.s = 1 /\ x.m # <<>> THEN <<"-">> ELSE <<>>)
       \o SubSeq(ds, 1, Len(ds) - d)
       \o (IF d > 0 THEN <<".">> \o SubSeq(ds, Len(ds) - d + 1, Len(ds))
           ELSE <<>>)))))

RECURSIVE DigitPrefixLen(_)
DigitPrefixLen(t) ==
  IF t # <<>> /\ IsDigit(Head(t)) THEN 1 + DigitPrefixLen(Tail(t)) ELSE 0

RECURSIVE DigitsToN(_, _)
DigitsToN(t, acc) ==
  IF t = <<>> THEN acc ELSE DigitsToN(Tail(t), NMulS(acc, 10, DigitVal(Head(t))))

RECURSIVE SkipSpaces(_)
SkipSpaces(t) == IF t # <<>> /\ Head(t) = " " THEN SkipSpaces(Tail(t)) ELSE t

\* parseFloat: leading blanks skipped, then the longest prefix that is a
\* decimal literal (sign, digits, ".", digits) or a signed "Infinity"; NaN
\* when there is none.  Exponent parts ("1e3") are not modelled: no text of
\* the model carries one.
ParseFloat(text) ==
  Bind(SkipSpaces(text), LAMBDA t :
  Bind(IF t # <<>> /\ Head(t) \in {"-", "+"} THEN Tail(t) ELSE t, LAMBDA body :
  Bind(DigitPrefixLen(body), LAMBDA ip :
  Bind(SubSeq(body, ip + 1, Len(body)), LAMBDA rest :
  Bind(IF rest # <<>> /\ Head(rest) = "." THEN DigitPrefixLen(Tail(rest)) ELSE 0,
       LAMBDA fp :
  IF Len(body) >= Len(TextInfinity)
     /\ SubSeq(body, 1, Len(TextInfinity)) = TextInfinity
  THEN Inf(IF Head(t) = "-" THEN 1 ELSE 0)
  ELSE IF ip + fp = 0 THEN NaN
  ELSE FromDec(Head(t) = "-",
               NTrim(DigitsToN(SubSeq(body, 1, ip) \o SubSeq(rest, 2, fp + 1),
                               <<>>)),
               fp))))))

\* Math.log on the arguments the model feeds it: the powers of two 2^-4..2^4
\* (correctly rounded values of k * ln 2), besides 0, negatives and NaN.
Ln2 == LitLong(6931471, 805599453, 16)

Ln4 == LitLong(13862943, 611198906, 16)

Ln8 == LitLong(20794415, 416798357, 16)

Ln16 == LitLong(2772588, 722239781, 15)

One == Lit(1, 0)

Two == Lit(2, 0)

Four == Lit(4, 0)

Eight == Lit(8, 0)

Sixteen == Lit(16, 0)

Half == Lit(5, 1)

Quarter == Lit(25, 2)

Eighth == Lit(125, 3)

Sixteenth == Lit(625, 4)

MathLog(x) ==
  IF x.k = "nan" THEN NaN
  ELSE IF x.k = "inf" THEN (IF x.s = 1 THEN NaN ELSE x)
  ELSE IF x.m = <<>> THEN Inf(1)
  ELSE IF x.s = 1 THEN NaN
  ELSE CASE x = One -> Zero(0)
         [] x = Two -> Ln2
         [] x = Four -> Ln4
         [] x = Eight -> Ln8
         [] x = Sixteen -> Ln16
         [] x = Half -> FNeg(Ln2)
         [] x = Quarter -> FNeg(Ln4)
         [] x = Eighth -> FNeg(Ln8)
         [] x = Sixteenth -> FNeg(Ln16)

(***************************************************************************)
(* JavaScript values other than numbers and strings, and property lookup.  *)
(* An object literal inherits from Object.prototype: obj[key] is the own   *)
(* property when key is one, else the inherited member (a function or an   *)
(* object, truthy) when key names one, else undefined.                     *)
(***************************************************************************)
Undefined == [k |-> "undefined"]

Null == [k |-> "null"]

Inherited == [k |-> "function"]

Str(v) == [k |-> "str", v |-> v]

ObjectPrototypeKeys ==
  {"constructor", "toString", "valueOf", "hasOwnProperty", "isPrototypeOf",
   "propertyIsEnumerable", "toLocaleString", "__proto__"}

GetProperty(obj, key) ==
  IF key \in DOMAIN obj THEN obj[key]
  ELSE IF key \in ObjectPrototypeKeys THEN Inherited
  ELSE Undefined

\* ToBoolean
Truthy(v) ==
  CASE v.k = "undefined" -> FALSE
    [] v.k = "null" -> FALSE
    [] v.k = "str" -> v.v # ""
    [] v.k = "nan" -> FALSE
    [] v.k = "num" -> v.m # <<>>
    [] OTHER -> TRUE

\* ToNumber, as the arithmetic operators apply it to an operand
ToNumber(v) ==
  CASE v.k \in {"num", "nan", "inf"} -> v
    [] v.k = "null" -> Zero(0)
    [] OTHER -> NaN

(***************************************************************************)
(* src/script.js, 253-271                                                  *)
(***************************************************************************)
Entry(i) == [k |-> "object", potential |-> Lit(i, 2)]

STANDARD_REDUCTION_POTENTIALS ==
  [key \in {"Li", "K", "Ca", "Na", "Mg", "Al", "Zn", "Fe", "Ni", "Sn", "Pb",
            "H2", "Cu", "Ag", "Hg", "Pt", "Au"} |->
     CASE key = "Li" -> Entry(-304)
       [] key = "K" -> Entry(-293)
       [] key = "Ca" -> Entry(-287)
       [] key = "Na" -> Entry(-271)
       [] key = "Mg" -> Entry(-237)
       [] key = "Al" -> Entry(-166)
       [] key = "Zn" -> Entry(-76)
       [] key = "Fe" -> Entry(-44)
       [] key = "Ni" -> Entry(-25)
       [] key = "Sn" -> Entry(-14)
       [] key = "Pb" -> Entry(-13)
       [] key = "H2" -> Entry(0)
       [] key = "Cu" -> Entry(34)
       [] key = "Ag" -> Entry(80)
       [] key = "Hg" -> Entry(85)
       [] key = "Pt" -> Entry(120)
       [] key = "Au" -> Entry(150)]

\* entry.potential
Potential(entry) == IF entry.k = "object" THEN entry.potential ELSE Undefined

(***************************************************************************)
(* class EnvironmentSettings, src/script.js 170-195                        *)
(***************************************************************************)
EnvironmentSettings(temperature, pressure, solvent, catalyst, ph) ==
  [temperature |-> temperature, pressure |-> pressure, solvent |-> solvent,
   catalyst |-> catalyst, ph |-> ph]

solventFactors ==
  [key \in {"Water", "Methanol", "Ethanol", "DMSO", "Acetonitrile"} |->
     CASE key = "Water" -> Lit(10, 1)
       [] key = "Methanol" -> Lit(95, 2)
       [] key = "Ethanol" -> Lit(90, 2)
       [] key = "DMSO" -> Lit(11, 1)
       [] key = "Acetonitrile" -> Lit(105, 2)]

\* The numeric literals of modifyPotential: 273.15, 298.15, -0.059, 7, 0.01,
\* 0.05 and the default solvent factor 1.0
CelsiusOffset == Lit(27315, 2)

\* 298.15 written as 273.15
FreezingKelvin == Lit(27315, 2)

ReferenceKelvin == Lit(29815, 2)

PhSlope == Lit(-59, 3)

NeutralPh == Lit(7, 0)

PressureWeight == Lit(1, 2)

Boost == Lit(5, 2)

DefaultSolventFactor == Lit(10, 1)

\* solventFactors[this.solvent] || 1.0
SolventFactor(solvent) ==
  LET f == GetProperty(solventFactors, solvent)
  IN IF Truthy(f) THEN f ELSE DefaultSolventFactor

\* this.catalyst ? 0.05 : 0.0
CatalystBoost(catalyst) == IF Truthy(catalyst) THEN Boost ELSE Zero(0)

\* The sum modifyPotential rounds, in the order the expression is evaluated:
\* ((base * tempFactor * solventFactor + pressureFactor * 0.01) + phFactor)
\*   + catalystBoost
ModifiedSum(this, basePotential) ==
  Bind(FAdd(this.temperature, CelsiusOffset), LAMBDA temperatureK :
  Bind(FDiv(temperatureK, ReferenceKelvin), LAMBDA tempFactor :
  Bind(MathLog(this.pressure), LAMBDA pressureFactor :
  Bind(FMul(PhSlope, FSub(this.ph, NeutralPh)), LAMBDA phFactor :
  Bind(SolventFactor(this.solvent), LAMBDA solventFactor :
  Bind(CatalystBoost(this.catalyst), LAMBDA catalystBoost :
  FAdd(FAdd(FAdd(FMul(FMul(ToNumber(basePotential), tempFactor),
                      ToNumber(solventFactor)),
                 FMul(pressureFactor, PressureWeight)),
            phFactor),
       catalystBoost)))))))

modifyPotential(this, basePotential) == ToFixed(ModifiedSum(this, basePotential), 3)

\* A variant that converts the temperature to kelvins in place
KelvinInPlace(this, basePotential) ==
  [this EXCEPT !.temperature = FAdd(@, CelsiusOffset)]

\* The fields of the receiver once modifyPotential has returned: the method
\* reads them into constants and assigns none
EnvironmentAfter(this, basePotential) == this

(***************************************************************************)
(* class SimulationParameters, class AdvancedElectrochemicalCell,          *)
(* src/script.js 197-251                                                   *)
(***************************************************************************)
SimulationParameters(anode, cathode, concAnode, concCathode, molesReactant, environment) ==
  [anode |-> anode, cathode |-> cathode, concAnode |-> concAnode,
   concCathode |-> concCathode, molesReactant |-> molesReactant,
   environment |-> environment]

AdvancedElectrochemicalCell(environment) == [environment |-> environment]

Return(value) == [threw |-> FALSE, value |-> value, error |-> ""]

Throw(message) == [threw |-> TRUE, value |-> <<>>, error |-> message]

\* Faraday constant (C/mol) and gas constant (J/K.mol)
F == LitLong(964853321, 233100184, 13)

R == LitLong(831446, 261815324, 14)

\* A variant of the guard that lets a zero through
CathodeIsNaN(params) == IsNaN(params.concCathode)

\* params.concCathode === 0
CathodeIsZero(params) == IsZero(params.concCathode)

\* A variant that reads the environment the parameters carry
CarriedEnvironment(this, params) == params.environment

\* this.environment, the receiver of modifyPotential at lines 219-220 and the
\* temperature of line 223; params.environment is read nowhere
EngineEnvironment(this, params) == this.environment

\* calculateCellPotential with the lookup table as it is at the call
calculateCellPotential(table, this, params) ==
  IF ~Truthy(GetProperty(table, params.anode))
     \/ ~Truthy(GetProperty(table, params.cathode))
  THEN Throw("Invalid electrode materials")
  ELSE
  Bind(ParseFloat(modifyPotential(EngineEnvironment(this, params),
                    Potential(GetProperty(table, params.anode)))),
       LAMBDA E0_anode :
  Bind(ParseFloat(modifyPotential(EngineEnvironment(this, params),
                    Potential(GetProperty(table, params.cathode)))),
       LAMBDA E0_cathode :
  Bind(FSub(E0_cathode, E0_anode), LAMBDA E0_cell :
  Bind(FAdd(EngineEnvironment(this, params).temperature, CelsiusOffset), LAMBDA temperatureK :
  Bind(FDiv(FMul(temperatureK, R), FMul(Two, F)), LAMBDA RT_nF :
  IF CathodeIsZero(params)
  THEN Throw("Cathode concentration cannot be zero")
  ELSE
  Bind(FDiv(params.concAnode, params.concCathode), LAMBDA Q :
  Bind(FSub(E0_cell, FMul(RT_nF, MathLog(Q))), LAMBDA result :
  Return(ToFixed(result, 4)))))))))

\* getHalfReactions: the three texts, as the parts the template strings join
getHalfReactions(anode, cathode) ==
  <<<<anode, "n+ + n e- <=> ", anode>>,
    <<cathode, "m+ + m e- <=> ", cathode>>,
    <<"m ", anode, " + n ", cathode, "m+ <=> n ", cathode, " + m ", anode, "n+">>>>

(***************************************************************************)
(* State                                                                   *)
(***************************************************************************)
VARIABLES
  table,    \* the object STANDARD_REDUCTION_POTENTIALS names
  env,      \* the fields of the EnvironmentSettings instance in use
  params,   \* the fields of the SimulationParameters instance in use
  call,     \* the engine call of the last step: its arguments and outcome
  called,   \* whether an engine call was made so far
  fields,   \* the value of each form control
  validity, \* the custom validity message of each validated control
  page,     \* the results panel, the diagram and the input panel
  event,    \* whether the submit handler ran last, and the alert it raised
  failed    \* whether a run of the submit handler ended in an error so far

form == <<fields, validity, page, event, failed>>

vars == <<table, env, params, call, called, fields, validity, page, event, failed>>

NoCall == [op |-> "none"]

(***************************************************************************)
(* The form, src/script.js 1-168.  The value of a numeric control is a     *)
(* text; the value of a select or of the catalyst control is kept as the   *)
(* identifier it holds.                                                    *)
(***************************************************************************)
Text_1_0 == <<"1", ".", "0">>

Text_0_5 == <<"0", ".", "5">>

Text_25 == <<"2", "5">>

Text_1 == <<"1">>

Text_7 == <<"7">>

Text_0 == <<"0">>

Text_abc == <<"a", "b", "c">>

Text_empty == <<>>

PRESETS ==
  [zinc_copper |->
     [k |-> "object", anode |-> "Zn", cathode |-> "Cu", conc_anode |-> Text_1_0,
      conc_cathode |-> Text_1_0, moles_reactant |-> Text_1_0,
      temperature |-> Text_25, pressure |-> Text_1_0, solvent |-> "Water",
      catalyst |-> "", ph |-> Text_7],
   silver_lead |->
     [k |-> "object", anode |-> "Pb", cathode |-> "Ag", conc_anode |-> Text_0_5,
      conc_cathode |-> Text_0_5, moles_reactant |-> Text_1_0,
      temperature |-> Text_25, pressure |-> Text_1_0, solvent |-> "Water",
      catalyst |-> "", ph |-> Text_7]]

\* Object.keys(preset): the preset's own properties; a function Object.prototype
\* supplies has none
ObjectKeys(obj) == IF obj.k = "object" THEN DOMAIN obj \ {"k"} ELSE {}

\* The controls once loadPreset(presetName) has returned
loadPreset(controls, presetName) ==
  Bind(GetProperty(PRESETS, presetName), LAMBDA preset :
  IF ~Truthy(preset) THEN controls
  ELSE [id \in DOMAIN controls |->
          IF id \in ObjectKeys(preset) THEN preset[id] ELSE controls[id]])

\* The controls once the click handler of startBtn has set the values of its
\* mode
startValues(controls) ==
  CASE controls.mode = "2" ->
         [controls EXCEPT !.conc_anode = Text_1_0, !.conc_cathode = Text_1_0,
                          !.moles_reactant = Text_1_0, !.temperature = Text_25,
                          !.pressure = Text_1, !.ph = Text_7]
    [] controls.mode = "3" ->
         [controls EXCEPT !.temperature = Text_25, !.pressure = Text_1,
                          !.ph = Text_7]
    [] OTHER -> controls

\* A variant of the test that leaves the range out
IsNumber(value, min, max) == ~IsNaN(ParseFloat(value))

\* The test of validateInput: the value parses to a number within [min, max]
validateInput(value, min, max) ==
  Bind(ParseFloat(value), LAMBDA value_ :
  ~(IsNaN(value_) \/ FLess(value_, min) \/ FGreater(value_, max)))

validations ==
  <<[elem |-> "conc_anode", min |-> Lit(1, 3), max |-> Lit(10, 0),
     name |-> "Anode concentration"],
    [elem |-> "conc_cathode", min |-> Lit(1, 3), max |-> Lit(10, 0),
     name |-> "Cathode concentration"],
    [elem |-> "temperature", min |-> Zero(0), max |-> Lit(100, 0),
     name |-> "Temperature"],
    [elem |-> "pressure", min |-> Lit(1, 1), max |-> Lit(10, 0),
     name |-> "Pressure"]>>

\* validations.every(...): the index of the first validation that fails, 0 when
\* none does; the validations after it are not run
RECURSIVE FirstInvalid(_, _)
FirstInvalid(controls, i) ==
  IF i > Len(validations) THEN 0
  ELSE IF ~validateInput(controls[validations[i].elem], validations[i].min,
                         validations[i].max)
       THEN i
       ELSE FirstInvalid(controls, i + 1)

\* The message validateInput sets on a control that fails, as the parts the
\* template string joins; the numbers stand where their texts are joined
ValidityMessage(v) == <<v.name, " must be between ", v.min, " and ", v.max>>

\* A variant in which a control that passes keeps the message it had
KeepValidity(messages, controls) ==
  Bind(FirstInvalid(controls, 1), LAMBDA stopped :
  [id \in DOMAIN messages |->
     Bind(CHOOSE i \in 1..Len(validations) : validations[i].elem = id, LAMBDA i :
     IF stopped # 0 /\ i = stopped THEN ValidityMessage(validations[i])
     ELSE messages[id])])

\* The custom validity of each control once every(...) has returned: cleared
\* on the controls that passed, set on the one that failed, left as it was on
\* the ones not reached
setCustomValidity(messages, controls) ==
  Bind(FirstInvalid(controls, 1), LAMBDA stopped :
  [id \in DOMAIN messages |->
     Bind(CHOOSE i \in 1..Len(validations) : validations[i].elem = id, LAMBDA i :
     IF stopped = 0 \/ i < stopped THEN <<>>
     ELSE IF i = stopped THEN ValidityMessage(validations[i])
     ELSE messages[id])])

getReactionSummary(anode, cathode, molesAnode, molesCathode) ==
  <<"The overall reaction suggests that ", molesAnode, " moles of ", anode,
    " are oxidized and ", molesCathode, " moles of ", cathode,
    " ions are reduced, forming ", cathode, " metal and ", anode, " ions.">>

\* The texts drawGalvanicCell writes on the canvas after clearing it; the lines
\* it strokes are the same in every drawing
drawGalvanicCell(anode, cathode, E_cell) ==
  <<<<anode, " | ", anode, "n+ (Anode)">>,
    <<cathode, "m+ | ", cathode, " (Cathode)">>,
    <<"E.cell = ", E_cell, " V">>>>

\* new EnvironmentSettings(...) of line 142, from the values lines 136-140 read
submitEnvironment(controls) ==
  EnvironmentSettings(ParseFloat(controls.temperature),
                      ParseFloat(controls.pressure),
                      controls.solvent,
                      IF controls.catalyst # "" THEN Str(controls.catalyst) ELSE Null,
                      ParseFloat(controls.ph))

\* new SimulationParameters(...) of line 143, from the values lines 131-135
\* read
submitParameters(controls) ==
  SimulationParameters(controls.anode, controls.cathode,
                       ParseFloat(controls.conc_anode),
                       ParseFloat(controls.conc_cathode),
                       ParseFloat(controls.moles_reactant),
                       submitEnvironment(controls))

\* The try block of the submit handler up to the engine call, lines 113-146:
\* the instances it constructs and what calculateCellPotential gives, or the
\* validation error raised before any is constructed
submitTry(tbl, controls) ==
  IF FirstInvalid(controls, 1) # 0
  THEN [reached |-> FALSE, out |-> Throw("Validation failed")]
  ELSE [reached |-> TRUE,
        environment |-> submitEnvironment(controls),
        params |-> submitParameters(controls),
        out |-> calculateCellPotential(
                  tbl, AdvancedElectrochemicalCell(submitEnvironment(controls)),
                  submitParameters(controls))]

\* The content of the results panel, lines 147-157
resultsContent(run) ==
  [cellPotential |-> run.out.value,
   halfReactions |-> getHalfReactions(run.params.anode, run.params.cathode),
   reactionSummary |->
     getReactionSummary(run.params.anode, run.params.cathode,
                        run.params.molesReactant,
                        FDiv(FMul(run.params.molesReactant, run.params.concAnode),
                             run.params.concCathode))]

\* The page once the try block has run to its end, lines 150-163
ShowResults(panel, run) ==
  [panel EXCEPT !.results = resultsContent(run),
                !.canvas = drawGalvanicCell(run.params.anode, run.params.cathode,
                                            run.out.value),
                !.resultsVisible = TRUE,
                !.diagramVisible = TRUE]

\* The page with the results panel and the diagram hidden
HideResults(panel, run) ==
  [panel EXCEPT !.resultsVisible = FALSE, !.diagramVisible = FALSE]

\* The page once the catch block has run, lines 164-167: it logs and alerts
CatchError(panel, run) == panel

NoAlert == <<>>

\* The results panel with nothing written to it
NoResults == [cellPotential |-> <<>>, halfReactions |-> <<>>, reactionSummary |-> <<>>]

\* alert('Error during simulation: ' + error.message)
Alert(message) == <<"Error during simulation: ", message>>

\* The page after DOMContentLoaded, the zinc-copper preset in its controls
InitForm ==
  /\ fields = loadPreset([mode |-> "1", anode |-> "", cathode |-> "",
                          conc_anode |-> Text_empty, conc_cathode |-> Text_empty,
                          moles_reactant |-> Text_empty, temperature |-> Text_empty,
                          pressure |-> Text_empty, solvent |-> "", catalyst |-> "",
                          ph |-> Text_empty], "zinc_copper")
  /\ validity = [id \in {validations[i].elem : i \in 1..Len(validations)} |-> <<>>]
  /\ page = [results |-> NoResults, canvas |-> <<>>, resultsVisible |-> FALSE,
             diagramVisible |-> FALSE, inputParameters |-> "none"]
  /\ event = [submit |-> FALSE, alert |-> NoAlert]
  /\ failed = FALSE

(***************************************************************************)
(* The arguments the callers construct the instances from                  *)
(***************************************************************************)
NTemperatures == 2

NPhs == 4

NConcentrations == 3

TemperatureChoices == <<Lit(25, 0), Lit(100, 0), Zero(0)>>

PhChoices == <<NeutralPh, Lit(8, 0), Lit(6, 0), NaN, Lit(35, 1)>>

ConcentrationChoices == <<One, Two, Zero(0), Half>>

Temperatures == {TemperatureChoices[i] : i \in 1..NTemperatures}

Phs == {PhChoices[i] : i \in 1..NPhs}

Concentrations == {ConcentrationChoices[i] : i \in 1..NConcentrations}

Pressures == {One, Two}

Solvents ==
  {"Water", "Methanol", "Ethanol", "DMSO", "Acetonitrile", "Hexane", "constructor"}

Catalysts == {Null, Str(""), Str("Pt"), Str("Ni")}

\* Every key of the table, a name Object.prototype defines and a name nothing
\* defines
Electrodes == DOMAIN STANDARD_REDUCTION_POTENTIALS \cup {"constructor", "Xx"}

ReferenceEnvironment == EnvironmentSettings(Lit(25, 0), One, "Water", Null, NeutralPh)

ReferenceParameters ==
  SimulationParameters("Zn", "Cu", One, One, One, ReferenceEnvironment)

Init ==
  /\ table = STANDARD_REDUCTION_POTENTIALS
  /\ env = ReferenceEnvironment
  /\ params = ReferenceParameters
  /\ call = NoCall
  /\ called = FALSE
  /\ InitForm

\* new EnvironmentSettings(...) and new SimulationParameters(..., environment),
\* as lines 142-143 pair them: fresh instances, one argument of the
\* environment differing from the instance in use
NewEnvironment(temperatures, pressures, solvents, catalysts, phs) ==
  /\ \/ \E t \in temperatures : env' = [env EXCEPT !.temperature = t]
     \/ \E p \in pressures : env' = [env EXCEPT !.pressure = p]
     \/ \E s \in solvents : env' = [env EXCEPT !.solvent = s]
     \/ \E c \in catalysts : env' = [env EXCEPT !.catalyst = c]
     \/ \E ph \in phs : env' = [env EXCEPT !.ph = ph]
  /\ params' = [params EXCEPT !.environment = env']
  /\ call' = NoCall
  /\ UNCHANGED <<table, called, form>>

\* new SimulationParameters(...): a fresh instance, one argument differing
NewParameters(anodes, cathodes, concentrations) ==
  /\ \/ \E a \in anodes : params' = [params EXCEPT !.anode = a]
     \/ \E c \in cathodes : params' = [params EXCEPT !.cathode = c]
     \/ \E x \in concentrations : params' = [params EXCEPT !.concAnode = x]
     \/ \E x \in concentrations : params' = [params EXCEPT !.concCathode = x]
  /\ call' = NoCall
  /\ UNCHANGED <<table, env, called, form>>

\* this.environment.modifyPotential(STANDARD_REDUCTION_POTENTIALS[params.anode]
\* .potential), line 219, which is reached when the lookup of line 215 passes
CallModifyPotential ==
  LET anode == GetProperty(table, params.anode)
  IN /\ Truthy(anode)
     /\ call' = [op |-> "modifyPotential", first |-> ~called, env |-> env,
                 base |-> Potential(anode),
                 out |-> modifyPotential(env, Potential(anode))]
     /\ env' = EnvironmentAfter(env, Potential(anode))
     /\ called' = TRUE
     /\ UNCHANGED <<table, params, form>>

\* new AdvancedElectrochemicalCell(environment).calculateCellPotential(params),
\* lines 144-146; the two calls of modifyPotential are made when the lookup of
\* line 215 passes
CallCalculateCellPotential ==
  /\ call' = [op |-> "calculateCellPotential", first |-> ~called, env |-> env,
              params |-> params,
              out |-> calculateCellPotential(table, AdvancedElectrochemicalCell(env),
                                             params)]
  /\ env' = IF Truthy(GetProperty(table, params.anode))
               /\ Truthy(GetProperty(table, params.cathode))
            THEN EnvironmentAfter(
                   EnvironmentAfter(env, Potential(GetProperty(table, params.anode))),
                   Potential(GetProperty(table, params.cathode)))
            ELSE env
  /\ called' = TRUE
  /\ UNCHANGED <<table, params, form>>

\* The correction on its own, over every environment and base potential
NextModify ==
  \/ NewEnvironment(Temperatures, Pressures, Solvents, Catalysts, Phs)
  \/ NewParameters(Electrodes, {}, {})
  \/ CallModifyPotential

SpecModify == Init /\ [][NextModify]_vars

\* The engine, over fewer environments and electrodes and every concentration
NextEngine ==
  \/ NewEnvironment(Temperatures, {}, {}, {}, {NeutralPh, NaN})
  \/ NewParameters({"Zn", "H2", "Xx", "constructor"}, {"Cu", "Zn", "Xx"},
                   Concentrations)
  \/ CallModifyPotential
  \/ CallCalculateCellPotential

SpecEngine == Init /\ [][NextEngine]_vars

\* The engine, over every pair of keys of the table
NextPairs ==
  \/ NewEnvironment({}, {}, {}, {}, {NeutralPh, NaN})
  \/ NewParameters(DOMAIN STANDARD_REDUCTION_POTENTIALS,
                   DOMAIN STANDARD_REDUCTION_POTENTIALS, {One, Two})
  \/ CallCalculateCellPotential

SpecPairs == Init /\ [][NextPairs]_vars

\* new SimulationParameters(...): a fresh instance that differs in an argument
\* calculateCellPotential does not read, molesReactant or environment
NewCarried(environments, moles) ==
  /\ \/ \E e \in environments : params' = [params EXCEPT !.environment = e]
     \/ \E m \in moles : params' = [params EXCEPT !.molesReactant = m]
  /\ call' = NoCall
  /\ UNCHANGED <<table, env, called, form>>

\* cell.getHalfReactions(anode, cathode), line 147: the method assigns nothing
CallGetHalfReactions ==
  /\ call' = [op |-> "getHalfReactions", first |-> ~called, env |-> env,
              params |-> params,
              out |-> getHalfReactions(params.anode, params.cathode)]
  /\ called' = TRUE
  /\ UNCHANGED <<table, env, params, form>>

\* cell.getReactionSummary(anode, cathode, molesReactant,
\* molesReactant * concAnode / concCathode), line 148: the method assigns nothing
CallGetReactionSummary ==
  /\ call' = [op |-> "getReactionSummary", first |-> ~called, env |-> env,
              params |-> params,
              out |-> getReactionSummary(params.anode, params.cathode,
                        params.molesReactant,
                        FDiv(FMul(params.molesReactant, params.concAnode),
                             params.concCathode))]
  /\ called' = TRUE
  /\ UNCHANGED <<table, env, params, form>>

\* The environments a SimulationParameters may carry while the engine holds
\* another one
CarriedEnvironments ==
  {ReferenceEnvironment,
   EnvironmentSettings(Lit(100, 0), One, "Water", Null, NeutralPh),
   EnvironmentSettings(Lit(25, 0), Two, "DMSO", Str("Pt"), Lit(8, 0))}

CarriedMoles == {One, Two, NaN}

\* The engine, over parameters that carry an environment other than the
\* engine's and any amount of reactant, with the other two methods called in
\* between
NextCarried ==
  \/ NewEnvironment(Temperatures, {}, {}, {}, {})
  \/ NewParameters({"Zn", "H2"}, {}, {One, Two})
  \/ NewCarried(CarriedEnvironments, CarriedMoles)
  \/ CallGetHalfReactions
  \/ CallGetReactionSummary
  \/ CallCalculateCellPotential

SpecCarried == Init /\ [][NextCarried]_vars

(***************************************************************************)
(* The handlers of the page                                                *)
(***************************************************************************)
\* What the user selects or types into a control
UserInputs ==
  [mode |-> {"1", "2", "3"},
   anode |-> {"Xx"},
   conc_cathode |-> {Text_0},
   pressure |-> {Text_abc},
   ph |-> {Text_empty}]

PresetNames == {"zinc_copper", "silver_lead", "constructor", "none"}

SetField ==
  \E id \in DOMAIN UserInputs : \E value \in UserInputs[id] :
    /\ fields' = [fields EXCEPT ![id] = value]
    /\ event' = [submit |-> FALSE, alert |-> NoAlert]
    /\ call' = NoCall
    /\ UNCHANGED <<table, env, params, called, validity, page, failed>>

LoadPreset ==
  \E presetName \in PresetNames :
    /\ fields' = loadPreset(fields, presetName)
    /\ event' = [submit |-> FALSE, alert |-> NoAlert]
    /\ call' = NoCall
    /\ UNCHANGED <<table, env, params, called, validity, page, failed>>

\* The click handler of startBtn, lines 43-72
Start ==
  /\ page' = [page EXCEPT !.resultsVisible = FALSE, !.diagramVisible = FALSE,
                          !.inputParameters = "block"]
  /\ fields' = startValues(fields)
  /\ event' = [submit |-> FALSE, alert |-> NoAlert]
  /\ call' = NoCall
  /\ UNCHANGED <<table, env, params, called, validity, failed>>

\* The submit handler, lines 110-168.  The instances it constructs are its
\* own: call records them and the instances in use stay as they are.
Submit ==
  /\ validity' = setCustomValidity(validity, fields)
  /\ \E run \in {submitTry(table, fields)} :
       /\ call' = IF run.reached
                  THEN [op |-> "calculateCellPotential", first |-> ~called,
                        env |-> run.environment, params |-> run.params,
                        out |-> run.out]
                  ELSE NoCall
       /\ called' = (called \/ run.reached)
       /\ failed' = (failed \/ run.out.threw)
       /\ page' = IF run.out.threw THEN CatchError(page, run)
                  ELSE ShowResults(page, run)
       /\ event' = [submit |-> TRUE,
                    alert |-> IF run.out.threw THEN Alert(run.out.error)
                            ELSE NoAlert]
  /\ UNCHANGED <<table, env, params, fields>>

Next == SetField \/ LoadPreset \/ Start \/ Submit

Spec == Init /\ [][Next]_vars

(***************************************************************************)
(* Reading the texts the engine returns                                    *)
(***************************************************************************)
\* text is a decimal numeral with exactly d decimals: an optional "-", one
\* digit or more, ".", d digits
IsDecimal(text, d) ==
  LET body == IF text # <<>> /\ Head(text) = "-" THEN Tail(text) ELSE text
      n == Len(body)
  IN /\ n >= d + 2
     /\ body[n - d] = "."
     /\ \A i \in 1..n : i # n - d => IsDigit(body[i])

RECURSIVE DigitsValue(_, _)
DigitsValue(t, acc) ==
  IF t = <<>> THEN acc
  ELSE DigitsValue(Tail(t), IF IsDigit(Head(t)) THEN 10 * acc + DigitVal(Head(t))
                            ELSE acc)

\* The integer a decimal numeral denotes once its point is dropped: -237 for
\* "-0.237"
Scaled(text) ==
  IF Head(text) = "-" THEN -DigitsValue(text, 0) ELSE DigitsValue(text, 0)

IsTableKey(key) == key \in DOMAIN STANDARD_REDUCTION_POTENTIALS

(***************************************************************************)
(* The engine's calls (SpecEngine)                                         *)
(***************************************************************************)
\* C1: calculateCellPotential raises "Invalid electrode materials", and returns
\* nothing, whenever params.anode or params.cathode is not a key of the table,
\* whatever the other parameters are (concCathode = 0 included).
UnknownElectrodeIsRejected ==
  (/\ call.op = "calculateCellPotential"
   /\ ~IsTableKey(call.params.anode) \/ ~IsTableKey(call.params.cathode))
  => call.out = Throw("Invalid electrode materials")

\* C2: calculateCellPotential called with concCathode = 0 and both electrodes
\* in the table raises "Cathode concentration cannot be zero" and returns
\* nothing, for every anode concentration and every environment.
ZeroCathodeConcentrationIsRejected ==
  (/\ call.op = "calculateCellPotential"
   /\ IsZero(call.params.concCathode)
   /\ IsTableKey(call.params.anode) /\ IsTableKey(call.params.cathode))
  => call.out = Throw("Cathode concentration cannot be zero")

\* A call with a zero cathode concentration, away from the reference anode
\* concentration, temperature and pH, has raised its error
ZeroCathodeConcentrationSeen ==
  /\ call.op = "calculateCellPotential"
  /\ IsZero(call.params.concCathode)
  /\ call.params.anode = "H2" /\ call.params.cathode = "Zn"
  /\ call.params.concAnode = Two
  /\ call.env.temperature = Lit(100, 0)
  /\ IsNaN(call.env.ph)
  /\ call.out.threw

\* C6: whatever calls came before, calculateCellPotential returns what it
\* returns as the very first call on the same EnvironmentSettings and
\* SimulationParameters, and no call changes the fields of either or the table.
CallsAreHistoryIndependent ==
  /\ [](table = STANDARD_REDUCTION_POTENTIALS)
  /\ [](call.op = "calculateCellPotential"
        => call.out = calculateCellPotential(STANDARD_REDUCTION_POTENTIALS,
                        AdvancedElectrochemicalCell(call.env), call.params))
  /\ [][call'.op # "none" => UNCHANGED <<table, env, params>>]_vars

\* A successful calculateCellPotential call made after another engine call,
\* away from the reference inputs
LaterCallSeen ==
  /\ call.op = "calculateCellPotential"
  /\ ~call.first
  /\ call.params.concAnode = Two
  /\ call.env.temperature = Lit(100, 0)
  /\ ~call.out.threw
  /\ IsDecimal(call.out.value, 4)

(***************************************************************************)
(* The correction (SpecModify)                                             *)
(***************************************************************************)
\* modifyPotential on the environment and base potential of the last call,
\* with another catalyst
WithCatalyst(catalyst) ==
  modifyPotential([call.env EXCEPT !.catalyst = catalyst], call.base)

\* C7: with a non-empty catalyst identifier modifyPotential returns exactly
\* 0.05 more than with no catalyst (null or the empty string), all else fixed,
\* and the same value for every non-empty catalyst name.
CatalystAddsExactlyFiftyMillivolts ==
  (/\ call.op = "modifyPotential"
   /\ Truthy(call.env.catalyst)
   /\ IsDecimal(call.out, 3))
  => /\ Scaled(call.out) = Scaled(WithCatalyst(Null)) + 50
     /\ WithCatalyst(Str("")) = WithCatalyst(Null)
     /\ \A c \in Catalysts : Truthy(c) => WithCatalyst(c) = call.out

\* C8: raising pH by 1 changes the value modifyPotential returns by exactly
\* -0.059, all else fixed, and at pH 7 the pH term is 0.
PhUnitShiftsByFiftyNineMillivolts ==
  /\ IsZero(FMul(PhSlope, FSub(NeutralPh, NeutralPh)))
  /\ (/\ call.op = "modifyPotential"
      /\ IsFinite(call.env.ph)
      /\ IsDecimal(call.out, 3))
     => Scaled(modifyPotential([call.env EXCEPT !.ph = FAdd(@, One)], call.base))
          = Scaled(call.out) - 59

\* The multiplier of a solvent in hundredths, 1.0 for a name not listed
Multiplier(solvent) ==
  CASE solvent = "Water" -> 100
    [] solvent = "Methanol" -> 95
    [] solvent = "Ethanol" -> 90
    [] solvent = "DMSO" -> 110
    [] solvent = "Acetonitrile" -> 105
    [] OTHER -> 100

\* The thousandths nearest to p ten-thousandths (either neighbour at a tie)
Thousandths(p) ==
  LET a == IF p < 0 THEN -p ELSE p
      sign == IF p < 0 THEN -1 ELSE 1
  IN IF a % 10 = 5 THEN {sign * (a \div 10), sign * ((a \div 10) + 1)}
     ELSE {sign * ((a + 5) \div 10)}

\* C9: at 25 degrees, pressure 1, pH 7 and no catalyst, modifyPotential(base)
\* with solvent S is base times the multiplier of S rounded to 3 decimals, the
\* multiplier being 1.0 for every name not listed: an unrecognized solvent
\* gives what Water gives.
SolventScalesByItsMultiplier ==
  (/\ call.op = "modifyPotential"
   /\ call.env = [ReferenceEnvironment EXCEPT !.solvent = call.env.solvent]
   /\ call.base.k = "num")
  => /\ IsDecimal(call.out, 3)
     /\ Scaled(call.out)
          \in Thousandths(Scaled(ToFixed(call.base, 2)) * Multiplier(call.env.solvent))
     /\ call.env.solvent \notin DOMAIN solventFactors
          => call.out = modifyPotential(ReferenceEnvironment, call.base)

(***************************************************************************)
(* The page (Spec)                                                         *)
(***************************************************************************)
\* The controls hold what the zinc_copper preset supplies
HoldsZincCopper ==
  \A id \in ObjectKeys(PRESETS.zinc_copper) : fields[id] = PRESETS.zinc_copper[id]

\* C3: a submit of the zinc_copper preset calls the engine with Zn, Cu,
\* concentrations 1, 25 degrees, pressure 1, Water, no catalyst and pH 7; there
\* the correction leaves both standard potentials as they are ("-0.760" and
\* "0.340") and calculateCellPotential returns "1.1000", which the results
\* panel shows.
ZincCopperPresetGivesReferencePotential ==
  (event.submit /\ HoldsZincCopper)
  => /\ call.op = "calculateCellPotential"
     /\ call.env = ReferenceEnvironment
     /\ call.params = ReferenceParameters
     /\ modifyPotential(call.env, Lit(-76, 2)) = <<"-", "0", ".", "7", "6", "0">>
     /\ modifyPotential(call.env, Lit(34, 2)) = <<"0", ".", "3", "4", "0">>
     /\ ParseFloat(modifyPotential(call.env, Lit(-76, 2))) = Lit(-76, 2)
     /\ ParseFloat(modifyPotential(call.env, Lit(34, 2))) = Lit(34, 2)
     /\ call.out = Return(<<"1", ".", "1", "0", "0", "0">>)
     /\ page.resultsVisible
     /\ page.results.cellPotential = <<"1", ".", "1", "0", "0", "0">>

ZincCopperPresetSubmitted ==
  /\ event.submit
  /\ HoldsZincCopper
  /\ fields.mode = "2"
  /\ call.op = "calculateCellPotential"
  /\ ~call.first
  /\ page.diagramVisible

\* C4: a run of the submit handler either writes the whole result (the
\* potential the engine returned, the three half reactions, the summary and the
\* drawing), makes the results panel and the diagram visible and raises no
\* alert, or raises an alert and leaves the page exactly as it was.
SubmitIsAllOrNothing ==
  [][event'.submit =>
       \/ /\ event'.alert = NoAlert
          /\ call'.op = "calculateCellPotential"
          /\ ~call'.out.threw
          /\ page'.results.cellPotential = call'.out.value
          /\ page'.results.halfReactions = getHalfReactions(fields.anode, fields.cathode)
          /\ page'.results.reactionSummary =
               getReactionSummary(
                 fields.anode, fields.cathode, call'.params.molesReactant,
                 FDiv(FMul(call'.params.molesReactant, call'.params.concAnode),
                      call'.params.concCathode))
          /\ page'.canvas = drawGalvanicCell(fields.anode, fields.cathode,
                                             call'.out.value)
          /\ page'.resultsVisible
          /\ page'.diagramVisible
          /\ page'.inputParameters = page.inputParameters
       \/ /\ event'.alert # NoAlert
          /\ page' = page]_vars

FailedSubmitOverShownResults ==
  /\ event.submit
  /\ event.alert = Alert("Invalid electrode materials")
  /\ page.resultsVisible
  /\ page.diagramVisible
  /\ page.results # NoResults
  /\ page.results.halfReactions[1][1] # fields.anode

\* The value parseFloat reads from a control is a number above zero
IsPositiveNumber(text) ==
  /\ IsFinite(ParseFloat(text))
  /\ FGreater(ParseFloat(text), Zero(0))

ShownPotentialsAreFixedDecimals ==
  (event.submit /\ call.op = "calculateCellPotential" /\ ~call.out.threw)
  => /\ IsDecimal(call.out.value, 4)
     /\ IsDecimal(modifyPotential(call.env, Potential(table[call.params.anode])), 3)
     /\ IsDecimal(modifyPotential(call.env, Potential(table[call.params.cathode])), 3)

\* C11: a click on Start in Auto mode (mode "2") leaves in the anode and
\* cathode controls a pair the program chose: the same pair whatever the two
\* controls held before the click.
AutoStartChoosesElectrodes ==
  [][(fields.mode = "2" /\ Start) =>
       \A a, c \in DOMAIN STANDARD_REDUCTION_POTENTIALS :
         /\ startValues([fields EXCEPT !.anode = a, !.cathode = c]).anode
              = fields'.anode
         /\ startValues([fields EXCEPT !.anode = a, !.cathode = c]).cathode
              = fields'.cathode]_vars

\* The text reads as a number within [lo, hi]
InRange(text, lo, hi) ==
  /\ IsFinite(ParseFloat(text))
  /\ ~FLess(ParseFloat(text), lo)
  /\ ~FLess(hi, ParseFloat(text))

\* Every control holds a value the handler and the engine accept
InputsValid ==
  /\ IsTableKey(fields.anode)
  /\ IsTableKey(fields.cathode)
  /\ InRange(fields.conc_anode, Lit(1, 3), Lit(10, 0))
  /\ InRange(fields.conc_cathode, Lit(1, 3), Lit(10, 0))
  /\ InRange(fields.temperature, Zero(0), Lit(100, 0))
  /\ InRange(fields.pressure, Lit(1, 1), Lit(10, 0))

FLessOrEqual(x, y) == ~IsNaN(x) /\ ~IsNaN(y) /\ ~FLess(y, x)

\* E_cell0 of a call: the corrected cathode potential minus the corrected
\* anode potential, each read back from its 3-decimal text, to 4 decimals
NominalPotential(c) ==
  ToFixed(FSub(ParseFloat(modifyPotential(c.env, Potential(table[c.params.cathode]))),
               ParseFloat(modifyPotential(c.env, Potential(table[c.params.anode])))),
          4)

\* C13: with both electrodes in the table and both concentrations above zero,
\* calculateCellPotential returns E_cell0 itself when the concentrations are
\* equal, a value <= E_cell0 when concAnode > concCathode and a value >=
\* E_cell0 when concAnode < concCathode; the thermal voltage is RT/(2F): Zn
\* against Cu under the reference environment with concAnode = 2 and
\* concCathode = 1 gives "1.0911".
NernstTermLowersWithAnodeConcentration ==
  (/\ call.op = "calculateCellPotential"
   /\ IsTableKey(call.params.anode)
   /\ IsTableKey(call.params.cathode)
   /\ FGreater(call.params.concAnode, Zero(0))
   /\ FGreater(call.params.concCathode, Zero(0)))
  => /\ ~call.out.threw
     /\ call.params.concAnode = call.params.concCathode
          => call.out.value = NominalPotential(call)
     /\ FGreater(call.params.concAnode, call.params.concCathode)
          => FLessOrEqual(ParseFloat(call.out.value),
                          ParseFloat(NominalPotential(call)))
     /\ FLess(call.params.concAnode, call.params.concCathode)
          => FLessOrEqual(ParseFloat(NominalPotential(call)),
                          ParseFloat(call.out.value))
     /\ (/\ call.env = ReferenceEnvironment
         /\ call.params = [ReferenceParameters EXCEPT !.concAnode = Two])
          => call.out.value = <<"1", ".", "0", "9", "1", "1">>

\* C14: for every anode and cathode among the keys of the table (the same key
\* twice included), with both concentrations and the pressure above zero,
\* calculateCellPotential raises no error and returns a decimal numeral with 4
\* decimals; with anode = cathode and equal concentrations it returns "0.0000".
EveryTableEntryIsUsable ==
  (/\ call.op = "calculateCellPotential"
   /\ IsTableKey(call.params.anode)
   /\ IsTableKey(call.params.cathode)
   /\ FGreater(call.params.concAnode, Zero(0))
   /\ FGreater(call.params.concCathode, Zero(0))
   /\ FGreater(call.env.pressure, Zero(0)))
  => /\ ~call.out.threw
     /\ IsDecimal(call.out.value, 4)
     /\ (/\ call.params.anode = call.params.cathode
         /\ call.params.concAnode = call.params.concCathode)
          => call.out.value = <<"0", ".", "0", "0", "0", "0">>


(***************************************************************************)
(* The inputs the engine does not read (SpecCarried)                       *)
(***************************************************************************)
\* C15: the outcome of calculateCellPotential depends only on params.anode,
\* params.cathode, params.concAnode, params.concCathode and the
\* EnvironmentSettings the engine was constructed with: whatever environment
\* and amount of reactant the parameters carry, and whatever calls of
\* getHalfReactions and getReactionSummary were made before, the call returns
\* what it returns on the same four parameters carrying any other environment
\* and any other amount of reactant.
UnusedInputsDoNotInterfere ==
  call.op = "calculateCellPotential" =>
    \A e \in CarriedEnvironments, m \in CarriedMoles :
      call.out = calculateCellPotential(
                   STANDARD_REDUCTION_POTENTIALS,
                   AdvancedElectrochemicalCell(call.env),
                   [call.params EXCEPT !.environment = e, !.molesReactant = m])

\* A later call of an engine at 100 degrees whose parameters carry the
\* environment at 25 degrees with another pressure, solvent, catalyst and pH,
\* and 2 moles of reactant, and whose concentrations make the Nernst term
\* depend on the temperature
CarriedEnvironmentIgnored ==
  /\ call.op = "calculateCellPotential"
  /\ ~call.first
  /\ call.env.temperature = Lit(100, 0)
  /\ call.params.environment =
       EnvironmentSettings(Lit(25, 0), Two, "DMSO", Str("Pt"), Lit(8, 0))
  /\ call.params.molesReactant = Two
  /\ call.params.concAnode = Two
  /\ call.params.concCathode = One
  /\ ~call.out.threw
  /\ IsDecimal(call.out.value, 4)
====
